---- MODULE Spec2Model ----
(***************************************************************************)
(* Repeat ("reread") detection of astrbot_plugin_reread.                   *)
(*                                                                         *)
(* src/main.py: GroupState (per-group windows, one asyncio.Lock, the last  *)
(* repeated fingerprint), RereadPlugin.get_group_state (the registry) and  *)
(* RereadPlugin.reread_handle (the handler, an async generator).           *)
(*                                                                         *)
(* Handlers run on one asyncio event loop: a handler runs without          *)
(* interruption between two suspension points.  The suspension points of   *)
(* reread_handle are the acquisition of state.lock (only when the lock is  *)
(* taken), `await event.send(...)` and `yield event.chain_result(...)`.    *)
(* Each action below is one such uninterrupted run.                        *)
(*                                                                         *)
(* src/core/state.py: StateManager, the registry class of the core         *)
(* package, with its own specification SpecSM.                             *)
(***************************************************************************)
EXTENDS Integers, Sequences, FiniteSets, TLC

\* ------------------------------------------------------------------ bounds

MaxThreshold == 2   \* largest configured threshold
MaxHandlers == 2    \* handlers that can be in flight at the same time
MaxEvents == 3      \* events dispatched in one run
MaxManagers == 2    \* StateManager instances constructed in one run
Scale == 2          \* resolution of a probability: p is the number p / Scale

DefaultThreshold == 3   \* self.thresholds.get(seg_type, 3)

\* ------------------------------------------------------------------ values

None == "None"
NoSeg == [type |-> "None", text |-> "", file |-> "", url |-> "", path |-> "", id |-> 0]

Plain(text) == [type |-> "Plain", text |-> text, file |-> "", url |-> "", path |-> "", id |-> 0]
Image(file, url, path) ==
    [type |-> "Image", text |-> "", file |-> file, url |-> url, path |-> path, id |-> 0]
Face(id) == [type |-> "Face", text |-> "", file |-> "", url |-> "", path |-> "", id |-> id]
Record(file) == [type |-> "Record", text |-> "", file |-> file, url |-> "", path |-> "", id |-> 0]

\* Plain("打断！")
Interrupted == Plain("interrupted!")

Groups == {"g1", "g2"}
Senders == {"A", "B"}
Handlers == 1..MaxHandlers

\* The segments events carry.  The two images differ and share one key; the
\* voice record is of a type no branch of _make_fingerprint recognises.
Segs ==
    { Plain("hi"), Plain("x"),
      Image("", "u", ""), Image("u", "v", ""),
      Face(1),
      Record("r1") }

Event(wake, chain, group_id, sender_id) ==
    [is_at_or_wake_command |-> wake, chain |-> chain, group_id |-> group_id,
     sender_id |-> sender_id]

\* The events dispatched: in g1 every sender sends every text and every image,
\* and A a face and a voice record, as one-segment messages; in g2 every sender
\* sends "hi"; and one event of each kind the handler ignores (a wake command,
\* no segment, two segments).
Events ==
    {Event(FALSE, <<s>>, "g1", u) : s \in {x \in Segs : x.type \in {"Plain", "Image"}},
                                    u \in Senders}
        \cup {Event(FALSE, <<s>>, "g1", "A") : s \in {x \in Segs : x.type \in {"Face", "Record"}}}
        \cup {Event(FALSE, <<Plain("hi")>>, "g2", u) : u \in Senders}
        \cup { Event(TRUE, <<Plain("hi")>>, "g1", "A"),
               Event(FALSE, <<>>, "g1", "A"),
               Event(FALSE, <<Plain("hi"), Face(1)>>, "g1", "A") }

NoEvent ==
    [is_at_or_wake_command |-> FALSE, chain |-> <<>>, group_id |-> "", sender_id |-> ""]

Probabilities == {0, 1, Scale}      \* 0.0, a value strictly between, 1.0
Draws == 0..(Scale - 1)             \* random.random() is in [0, 1)

Config(thresholds, different, repeat, interrupt, whitelist) ==
    [ thresholds |-> thresholds,
      require_different_people |-> different,
      repeat_probability |-> repeat,
      interrupt_probability |-> interrupt,
      reread_group_whitelist |-> whitelist ]

\* config["thresholds"]: message type -> threshold; the keys are the supported types
PlainOnly(n) == [t \in {"Plain"} |-> n]

\* The configurations checked.  Plain alone with every threshold from -1 to
\* MaxThreshold: at MaxThreshold with both sender policies and with the
\* probabilities (between, between), (1.0, 0.0) and (0.0, between); at 1 with
\* different senders required and a whitelist that leaves g2 out.  Plain and
\* Image with MaxThreshold and both sender policies; Face and Record with 1.
Configs ==
    {Config(PlainOnly(n), FALSE, 1, 1, {}) : n \in ((0 - 1)..MaxThreshold) \ {1}}
        \cup {Config(PlainOnly(1), TRUE, 1, 1, {"g1"})}
        \cup {Config(PlainOnly(MaxThreshold), d, pi[1], pi[2], {}) :
                d \in BOOLEAN, pi \in {<<1, 1>>, <<Scale, 0>>, <<0, 1>>}}
        \cup {Config([t \in {"Plain", "Image"} |-> MaxThreshold], d, 1, 1, {}) : d \in BOOLEAN}
        \cup {Config([t \in {"Face", "Record"} |-> 1], FALSE, 1, 1, {})}

\* ------------------------------------------------------------------ state

VARIABLES
    conf,           \* self.conf, fixed at construction
    heap,           \* every GroupState object constructed so far, in order
    group_states,   \* self.group_states: group id -> index in heap, 0 if absent
    hs,             \* the handlers in flight: position and local variables
    ended,          \* the call of reread_handle that ended last, and where it ended
    sent,           \* what event.send delivered last: group id and chain
    made,           \* for every object in heap, the group id it was constructed for
    repeated,       \* per group, the last two fingerprints passed to mark_repeated
    dispatched      \* the number of events dispatched so far

\* src/core/state.py, StateManager
VARIABLES
    managers,       \* the StateManager instances constructed, each with its self.thresholds
    _group_states,  \* StateManager._group_states, an attribute of the class: group id ->
                    \* index in sm_heap, 0 if absent
    sm_heap,        \* every GroupState object a StateManager constructed, in order
    holders         \* for every object in sm_heap, the instances get_state returned it to

\* the state of the plugin, and the state of the StateManager class
pvars == <<conf, heap, group_states, hs, ended, sent, made, repeated, dispatched>>
smvars == <<managers, _group_states, sm_heap, holders>>

vars == <<pvars, smvars>>

NothingSent == [group_id |-> "", chain |-> <<>>]

\* the last two entries of a log, after adding x
LastTwo(log, x) == IF Len(log) = 0 THEN <<x>> ELSE <<log[Len(log)], x>>

\* A call of reread_handle: its number (events are numbered as dispatched), its
\* position, its event, and the locals state, fingerprint, out_seg.  same_sender
\* records whether, when the body ran, different senders were required and the
\* sender was the one of the last record of the window.
IdleHandler ==
    [id |-> 0, pc |-> "idle", event |-> NoEvent, state |-> 0, fingerprint |-> None,
     out_seg |-> NoSeg, same_sender |-> FALSE]

\* The call with the given locals, ended at pc
Ended(call, pc) == [call EXCEPT !.pc = pc]

\* ------------------------------------------------------------------ GroupState

\* deque(maxlen=limit) raises ValueError for a negative limit
GroupStateRaises(thresholds) == \E t \in DOMAIN thresholds : thresholds[t] < 0

\* GroupState.__init__
GroupState(thresholds) ==
    [ lock |-> [locked |-> FALSE, waiters |-> <<>>],
      maxlen |-> thresholds,
      messages |-> [t \in DOMAIN thresholds |-> <<>>],
      last_repeated_fingerprint |-> None ]

\* Faulty variant: a deque without maxlen
deque_append_unbounded(lst, maxlen, rec) == Append(lst, rec)

\* Faulty variant: at capacity the new record is dropped
deque_append_drop_newest(lst, maxlen, rec) ==
    IF maxlen = 0 THEN <<>>
    ELSE IF Len(lst) >= maxlen THEN lst
    ELSE Append(lst, rec)

\* deque.append on a deque of the given maxlen: at capacity the oldest goes
deque_append(lst, maxlen, rec) ==
    IF maxlen = 0 THEN <<>>
    ELSE IF Len(lst) >= maxlen THEN Append(Tail(lst), rec)
    ELSE Append(lst, rec)

SameSender(st, seg_type, send_id) ==
    LET lst == st.messages[seg_type]
    IN  Len(lst) > 0 /\ lst[Len(lst)].send_id = send_id

\* Faulty variant: the windows of all types are cleared
clear_if_same_sender_all(st, seg_type, send_id, require_different_people) ==
    IF ~require_different_people THEN st
    ELSE IF SameSender(st, seg_type, send_id)
         THEN [st EXCEPT !.messages = [t \in DOMAIN st.messages |-> <<>>]]
         ELSE st

\* Faulty variant: the window is never cleared
clear_if_same_sender_never(st, seg_type, send_id, require_different_people) == st

clear_if_same_sender(st, seg_type, send_id, require_different_people) ==
    IF ~require_different_people THEN st
    ELSE IF SameSender(st, seg_type, send_id)
         THEN [st EXCEPT !.messages[seg_type] = <<>>]
         ELSE st

\* Faulty variant: the record is not kept
push_message_never(st, seg_type, send_id, seg) == st

push_message(st, seg_type, send_id, seg) ==
    [st EXCEPT !.messages[seg_type] =
        deque_append(@, st.maxlen[seg_type], [send_id |-> send_id, seg |-> seg])]

get_messages(st, seg_type) == st.messages[seg_type]

clear_all(st) == [st EXCEPT !.messages = [t \in DOMAIN st.messages |-> <<>>]]

\* Faulty variant: the comparison with the last repeated fingerprint never matches
is_same_as_last_repeat_never(st, fingerprint) == FALSE

is_same_as_last_repeat(st, fingerprint) == st.last_repeated_fingerprint = fingerprint

mark_repeated(st, fingerprint) ==
    clear_all([st EXCEPT !.last_repeated_fingerprint = fingerprint])

\* Faulty variant: the body is entered without regard to the lock
LockFree_always(st) == TRUE

\* async with state.lock, entering: asyncio.Lock.acquire returns at once when the
\* lock is free and nobody waits for it, and queues the caller otherwise
LockFree(st) == ~st.lock.locked /\ st.lock.waiters = <<>>

\* Faulty variant: the lock is kept when the body is left
release_keeps_lock(st) == st

\* async with state.lock, leaving (normally, by return or by an exception):
\* asyncio.Lock.release, which wakes the first waiter
release(st) == [st EXCEPT !.lock.locked = FALSE]

\* ------------------------------------------------------------------ RereadPlugin

supported_type == DOMAIN conf.thresholds

_make_fingerprint(seg_type, seg) ==
    IF seg.type = "Plain" THEN "text:" \o seg.text
    ELSE IF seg.type = "Image"
         THEN "image:" \o (IF seg.file # "" THEN seg.file
                           ELSE IF seg.url # "" THEN seg.url ELSE seg.path)
    ELSE IF seg.type = "Face" THEN "face:" \o ToString(seg.id)
    ELSE "unknown:" \o seg_type

Threshold(seg_type) ==
    IF seg_type \in DOMAIN conf.thresholds THEN conf.thresholds[seg_type]
    ELSE DefaultThreshold

\* _can_repeat reads msg_list[0] once the length test has passed: IndexError on
\* an empty window
_can_repeat_raises(seg_type, msg_list) ==
    ~(Len(msg_list) < Threshold(seg_type)) /\ Len(msg_list) = 0

\* Faulty variant: the length test without the scan of the fingerprints
_can_repeat_length_only(seg_type, msg_list) == ~(Len(msg_list) < Threshold(seg_type))

_can_repeat(seg_type, msg_list) ==
    /\ ~(Len(msg_list) < Threshold(seg_type))
    /\ \A i \in 1..Len(msg_list) :
          _make_fingerprint(seg_type, msg_list[i].seg)
              = _make_fingerprint(seg_type, msg_list[1].seg)

\* Faulty variant: > for >=
ProbabilityRejects_strict(r) == r > conf.repeat_probability

\* random.random() >= self.conf["repeat_probability"]
ProbabilityRejects(r) == r >= conf.repeat_probability

\* Faulty variant: <= for <
Interrupts_inclusive(r) == r <= conf.interrupt_probability

\* random.random() < self.conf["interrupt_probability"]
Interrupts(r) == r < conf.interrupt_probability

\* Faulty variant: the whitelist is not consulted
Gate_no_whitelist(ev) ==
    IF ev.is_at_or_wake_command THEN "ret_wake"
    ELSE IF Len(ev.chain) # 1 THEN "ret_chain"
    ELSE IF ev.chain[1].type \notin supported_type THEN "ret_type"
    ELSE "pass"

\* The gates of reread_handle before the registry is touched; "pass" when the
\* event gets through
Gate(ev) ==
    IF ev.is_at_or_wake_command THEN "ret_wake"
    ELSE IF Len(ev.chain) # 1 THEN "ret_chain"
    ELSE IF ev.chain[1].type \notin supported_type THEN "ret_type"
    ELSE IF conf.reread_group_whitelist # {}
            /\ ev.group_id \notin conf.reread_group_whitelist THEN "ret_whitelist"
    ELSE "pass"

\* Faulty variant: the registry is not consulted
Absent_always(group_id) == TRUE

\* get_group_state: whether the registry has no entry for the group
Absent(group_id) == group_states[group_id] = 0

\* Faulty variant: every group is given the GroupState constructed first
Lookup_first(group_id) == 1

\* get_group_state: the registry entry of a group that has one
Lookup(group_id) == group_states[group_id]

\* The body of `async with state.lock` from the sender guard to the idempotency
\* check, run on the GroupState st with the lock held: the new GroupState, where
\* the handler stands afterwards ("draw": before the probability gate), and its
\* locals.
Checked(st, ev) ==
    LET seg == ev.chain[1]
        seg_type == seg.type
        send_id == ev.sender_id
        same_sender == conf.require_different_people /\ SameSender(st, seg_type, send_id)
        st1 == clear_if_same_sender(st, seg_type, send_id, conf.require_different_people)
        st2 == push_message(st1, seg_type, send_id, seg)
        msg_list == get_messages(st2, seg_type)
        fingerprint == _make_fingerprint(seg_type, msg_list[1].seg)
        out(pc, fp) ==
            [state |-> st2, pc |-> pc, fingerprint |-> fp, out_seg |-> NoSeg,
             same_sender |-> same_sender]
    IN  IF _can_repeat_raises(seg_type, msg_list) THEN out("raised_IndexError", None)
        ELSE IF ~_can_repeat(seg_type, msg_list) THEN out("ret_cannot_repeat", None)
        ELSE IF is_same_as_last_repeat(st2, fingerprint) THEN out("ret_same_as_last", fingerprint)
        ELSE out("draw", fingerprint)

\* The probability gate and the choice of the output, with the random draws r1
\* and r2; the second draw is made only past the gate
Drawn(c, ev, r1, r2) ==
    IF ProbabilityRejects(r1) THEN [c EXCEPT !.pc = "ret_probability"]
    ELSE [c EXCEPT !.pc = "send",
                   !.out_seg = IF Interrupts(r2) THEN Interrupted ELSE ev.chain[1]]

\* The body of `async with state.lock` up to its first suspension point: every
\* result the random draws allow
Critical(st, ev) ==
    LET c == Checked(st, ev)
    IN  IF c.pc # "draw" THEN {c}
        ELSE {Drawn(c, ev, r1, r2) : r1 \in Draws, r2 \in Draws}

\* ------------------------------------------------------------------ actions

Init ==
    /\ conf \in Configs
    /\ heap = <<>>
    /\ group_states = [g \in Groups |-> 0]
    /\ hs = [h \in Handlers |-> IdleHandler]
    /\ ended = Ended(IdleHandler, "none")
    /\ sent = NothingSent
    /\ made = <<>>
    /\ repeated = [g \in Groups |-> <<>>]
    /\ dispatched = 0
    /\ managers = <<>>
    /\ _group_states = [g \in Groups |-> 0]
    /\ sm_heap = <<>>
    /\ holders = <<>>

Free(h) == hs[h].pc = "idle"

\* The call of reread_handle for the next event runs in the first free slot
Idle(h) ==
    /\ Free(h)
    /\ \A k \in Handlers : k < h => ~Free(k)
    /\ dispatched < MaxEvents

\* The call number id after its body has run on GroupState i with result c
Call(id, i, c, ev) ==
    [id |-> id, pc |-> c.pc, event |-> ev, state |-> i, fingerprint |-> c.fingerprint,
     out_seg |-> c.out_seg, same_sender |-> c.same_sender]

\* The handler after the body has run up to its first suspension point: at the
\* send with its locals, or gone
After(id, i, c, ev) == IF c.pc = "send" THEN Call(id, i, c, ev) ELSE IdleHandler

EndedAfter(id, i, c, ev) == IF c.pc = "send" THEN ended ELSE Call(id, i, c, ev)

\* reread_handle, lines 165-187: the event is rejected by one of the four gates
Reject(h, ev) ==
    /\ Idle(h)
    /\ Gate(ev) # "pass"
    /\ ended' = [IdleHandler EXCEPT !.id = dispatched + 1, !.pc = Gate(ev), !.event = ev]
    /\ dispatched' = dispatched + 1
    /\ UNCHANGED <<conf, heap, group_states, hs, sent, made, repeated, smvars>>

\* get_group_state constructs a GroupState and the construction raises
ConstructFails(h, ev) ==
    /\ Idle(h)
    /\ Gate(ev) = "pass"
    /\ Absent(ev.group_id)
    /\ GroupStateRaises(conf.thresholds)
    /\ ended' = [IdleHandler EXCEPT !.id = dispatched + 1, !.pc = "raised_ValueError",
                                      !.event = ev]
    /\ dispatched' = dispatched + 1
    /\ UNCHANGED <<conf, heap, group_states, hs, sent, made, repeated, smvars>>

\* get_group_state, then `async with state.lock` on a free lock and the body up
\* to the send
Enter(h, ev) ==
    /\ Idle(h)
    /\ Gate(ev) = "pass"
    /\ ~(Absent(ev.group_id) /\ GroupStateRaises(conf.thresholds))
    /\ LET fresh == Absent(ev.group_id)
           i == IF fresh THEN Len(heap) + 1 ELSE Lookup(ev.group_id)
           st == IF fresh THEN GroupState(conf.thresholds) ELSE heap[i]
           locked == [st EXCEPT !.lock.locked = TRUE]
       IN  /\ LockFree(st)
           /\ \E c \in Critical(locked, ev) :
                 LET after == IF c.pc = "send" THEN c.state ELSE release(c.state)
                 IN  /\ heap' = IF fresh THEN Append(heap, after)
                               ELSE [heap EXCEPT ![i] = after]
                     /\ hs' = [hs EXCEPT ![h] = After(dispatched + 1, i, c, ev)]
                     /\ ended' = EndedAfter(dispatched + 1, i, c, ev)
           /\ made' = IF fresh THEN Append(made, ev.group_id) ELSE made
           /\ group_states' = [group_states EXCEPT ![ev.group_id] = i]
    /\ dispatched' = dispatched + 1
    /\ UNCHANGED <<conf, sent, repeated, smvars>>

\* get_group_state, then `async with state.lock` on a lock that is taken or
\* waited for: the handler queues and suspends
Wait(h, ev) ==
    /\ Idle(h)
    /\ Gate(ev) = "pass"
    /\ ~Absent(ev.group_id)
    /\ LET i == Lookup(ev.group_id)
       IN  /\ ~LockFree(heap[i])
           /\ heap' = [heap EXCEPT ![i].lock.waiters = Append(@, h)]
           /\ hs' = [hs EXCEPT ![h] = [IdleHandler EXCEPT !.id = dispatched + 1,
                                                          !.pc = "waiting", !.event = ev,
                                                          !.state = i]]
    /\ dispatched' = dispatched + 1
    /\ UNCHANGED <<conf, group_states, ended, sent, made, repeated, smvars>>

\* The first waiter of a released lock resumes, takes the lock and runs the body
\* up to the send
Wake(h) ==
    /\ hs[h].pc = "waiting"
    /\ LET i == hs[h].state
           st == heap[i]
           locked == [st EXCEPT !.lock.locked = TRUE, !.lock.waiters = Tail(@)]
       IN  /\ ~st.lock.locked
           /\ st.lock.waiters # <<>>
           /\ Head(st.lock.waiters) = h
           /\ \E c \in Critical(locked, hs[h].event) :
                 /\ heap' = [heap EXCEPT ![i] = IF c.pc = "send" THEN c.state
                                                ELSE release(c.state)]
                 /\ hs' = [hs EXCEPT ![h] = After(hs[h].id, i, c, hs[h].event)]
                 /\ ended' = EndedAfter(hs[h].id, i, c, hs[h].event)
    /\ UNCHANGED <<conf, group_states, sent, made, repeated, dispatched, smvars>>

\* await event.send(MessageChain(chain=[out_seg])) delivers and returns; the
\* handler runs on to `yield event.chain_result([out_seg])` and suspends there
SendReturns(h) ==
    /\ hs[h].pc = "send"
    /\ sent' = [group_id |-> hs[h].event.group_id, chain |-> <<hs[h].out_seg>>]
    /\ hs' = [hs EXCEPT ![h].pc = "yield"]
    /\ UNCHANGED <<conf, heap, group_states, ended, made, repeated, dispatched, smvars>>

\* await event.send(...) raises (or the task is cancelled there): the exception
\* leaves `async with`, which releases the lock
SendRaises(h) ==
    /\ hs[h].pc = "send"
    /\ heap' = [heap EXCEPT ![hs[h].state] = release(@)]
    /\ hs' = [hs EXCEPT ![h] = IdleHandler]
    /\ ended' = Ended(hs[h], "raised_send")
    /\ UNCHANGED <<conf, group_states, sent, made, repeated, dispatched, smvars>>

\* The host resumes the generator after the yield: mark_repeated, stop_event,
\* end of `async with`
Resume(h) ==
    /\ hs[h].pc = "yield"
    /\ heap' = [heap EXCEPT ![hs[h].state] = release(mark_repeated(@, hs[h].fingerprint))]
    /\ repeated' = [repeated EXCEPT ![hs[h].event.group_id] = LastTwo(@, hs[h].fingerprint)]
    /\ hs' = [hs EXCEPT ![h] = IdleHandler]
    /\ ended' = Ended(hs[h], "done")
    /\ UNCHANGED <<conf, group_states, sent, made, dispatched, smvars>>

\* Faulty variant: the repeat is committed although the generator is closed
Close_commits(h) ==
    /\ hs[h].pc = "yield"
    /\ heap' = [heap EXCEPT ![hs[h].state] = release(mark_repeated(@, hs[h].fingerprint))]
    /\ hs' = [hs EXCEPT ![h] = IdleHandler]
    /\ ended' = Ended(hs[h], "closed")
    /\ UNCHANGED <<conf, group_states, sent, made, repeated, dispatched, smvars>>

\* The host closes the generator suspended at the yield: GeneratorExit leaves
\* `async with`, which releases the lock
Close(h) ==
    /\ hs[h].pc = "yield"
    /\ heap' = [heap EXCEPT ![hs[h].state] = release(@)]
    /\ hs' = [hs EXCEPT ![h] = IdleHandler]
    /\ ended' = Ended(hs[h], "closed")
    /\ UNCHANGED <<conf, group_states, sent, made, repeated, dispatched, smvars>>

Next ==
    \/ \E h \in Handlers, ev \in Events : Reject(h, ev)
    \/ \E h \in Handlers, ev \in Events : ConstructFails(h, ev)
    \/ \E h \in Handlers, ev \in Events : Enter(h, ev)
    \/ \E h \in Handlers, ev \in Events : Wait(h, ev)
    \/ \E h \in Handlers : Wake(h)
    \/ \E h \in Handlers : SendReturns(h)
    \/ \E h \in Handlers : SendRaises(h)
    \/ \E h \in Handlers : Resume(h)
    \/ \E h \in Handlers : Close(h)

Spec == Init /\ [][Next]_vars

\* The event loop and the host are fair: an awaited send returns or raises, the
\* host resumes or closes a generator suspended at the yield, and the event loop
\* runs the waiter that a released lock has woken.  A handler is at one position
\* at a time, so at most one of its steps is enabled, and weak fairness of their
\* disjunction is weak fairness of each.
SpecFair ==
    /\ Init
    /\ [][Next]_vars
    /\ \A h \in Handlers :
          WF_vars(SendReturns(h) \/ SendRaises(h) \/ Resume(h) \/ Close(h) \/ Wake(h))

\* ------------------------------------------------------------------ StateManager

\* The thresholds StateManager instances are constructed with
ManagerThresholds ==
    {PlainOnly(n) : n \in 1..MaxThreshold}
        \cup {[t \in {"Plain", "Image"} |-> MaxThreshold]}

\* StateManager.__init__
NewManager(thresholds) ==
    /\ Len(managers) < MaxManagers
    /\ managers' = Append(managers, thresholds)
    /\ UNCHANGED <<_group_states, sm_heap, holders, pvars>>

\* StateManager.get_state, called on instance m: self._group_states is the
\* dictionary of the class, the same for every instance
get_state(m, gid) ==
    /\ m \in 1..Len(managers)
    /\ IF _group_states[gid] = 0
       THEN /\ sm_heap' = Append(sm_heap, GroupState(managers[m]))
            /\ _group_states' = [_group_states EXCEPT ![gid] = Len(sm_heap) + 1]
            /\ holders' = Append(holders, {m})
       ELSE /\ holders' = [holders EXCEPT ![_group_states[gid]] = @ \cup {m}]
            /\ UNCHANGED <<_group_states, sm_heap>>
    /\ UNCHANGED <<managers, pvars>>

NextSM ==
    \/ \E thresholds \in ManagerThresholds : NewManager(thresholds)
    \/ \E m \in 1..MaxManagers, gid \in Groups : get_state(m, gid)

SpecSM == Init /\ [][NextSM]_vars

\* ------------------------------------------------------------------ properties

\* A handler between the probability gate and the end of `async with`
InBody(h) == hs[h].pc \in {"send", "yield"}

\* The window of the handler's message type in the handler's GroupState
Window(h) == heap[hs[h].state].messages[hs[h].event.chain[1].type]

\* The record push_message makes of an event
RecordOf(ev) == [send_id |-> ev.sender_id, seg |-> ev.chain[1]]

FingerprintOf(ev) == _make_fingerprint(ev.chain[1].type, ev.chain[1])

Newest(log) == log[Len(log)]

C2_TriggerNeedsFullWindow ==
    \A h \in Handlers :
        InBody(h) =>
            LET t == hs[h].event.chain[1].type
            IN  /\ Len(Window(h)) >= Threshold(t)
                /\ Len(Window(h)) >= 1
                /\ Newest(Window(h)) = RecordOf(hs[h].event)
                /\ hs[h].fingerprint = FingerprintOf(hs[h].event)
                /\ \A k \in 1..Len(Window(h)) :
                      _make_fingerprint(t, Window(h)[k].seg) = hs[h].fingerprint

\* C2 witness: a handler at the send on a window of two records from different
\* senders
C2_Witness ==
    \E h \in Handlers :
        /\ hs[h].pc = "send"
        /\ Len(Window(h)) = 2
        /\ Window(h)[1].send_id # Window(h)[2].send_id

\* C3: every window of every GroupState holds at most threshold[type] records.
C3_WindowBounded ==
    \A i \in 1..Len(heap) :
        \A t \in DOMAIN heap[i].messages :
            Len(heap[i].messages[t]) <= conf.thresholds[t]

\* C3 witness: the last event of the run has been pushed, and the window is full
\* with MaxThreshold records that differ
C3_Witness ==
    /\ dispatched = MaxEvents
    /\ ended.pc = "ret_cannot_repeat"
    /\ ended.id = MaxEvents
    /\ \E i \in 1..Len(heap) :
          /\ made = <<"g1">>
          /\ conf.thresholds["Plain"] = MaxThreshold
          /\ Len(heap[i].messages["Plain"]) = MaxThreshold
          /\ heap[i].messages["Plain"][1].seg # heap[i].messages["Plain"][MaxThreshold].seg
          /\ heap[i].last_repeated_fingerprint = None
          /\ conf.repeat_probability = 0

\* The window the ended call pushed to
EndedWindow == heap[ended.state].messages[ended.event.chain[1].type]

\* A call ends in this step
CallEnds == ended'.id # ended.id

\* C4 as stated: with require_different_people, when a message is handled whose
\* sender is the sender of the last record of the window of its type, that window
\* holds exactly the record of the new message when the handling has ended.
C4_OneRecordAfterHandling ==
    [][CallEnds /\ ended'.same_sender => EndedWindow' = <<RecordOf(ended'.event)>>]_vars

\* C4 as amended: such a message leaves exactly its own record in the window from
\* its push until its handling ends; only when the message itself triggers and the
\* repeat completes, which needs a threshold of at most 1, mark_repeated leaves
\* the window empty.  With a threshold of 2 or more such a message never triggers.
C4_SameSenderKeepsOnlyNewRecord ==
    [][/\ \A h \in Handlers :
             InBody(h)' /\ hs'[h].same_sender
                 => /\ Window(h)' = <<RecordOf(hs'[h].event)>>
                    /\ Threshold(hs'[h].event.chain[1].type) <= 1
       /\ CallEnds /\ ended'.same_sender
             => IF ended'.pc = "done"
                THEN /\ EndedWindow' = <<>>
                     /\ Threshold(ended'.event.chain[1].type) <= 1
                ELSE EndedWindow' = <<RecordOf(ended'.event)>>]_vars

\* C4 witness: threshold 2, the sender of the last record sent again, and the call
\* ended below the threshold with its record alone in the window
C4_Witness ==
    /\ ended.same_sender
    /\ ended.pc = "ret_cannot_repeat"
    /\ Threshold(ended.event.chain[1].type) = 2
    /\ EndedWindow = <<RecordOf(ended.event)>>

\* C5: with repeat_probability 1.0 and interrupt_probability 0.0 no call ends at
\* the probability gate, and the output of every message that got past the checks
\* is the segment of the message, never the placeholder.
C5_Deterministic ==
    conf.repeat_probability = Scale /\ conf.interrupt_probability = 0
        => /\ ended.pc # "ret_probability"
           /\ \A h \in Handlers : InBody(h) => hs[h].out_seg = hs[h].event.chain[1]
           /\ sent.chain # <<Interrupted>>

\* C5 witness: with these probabilities a message has been sent back as it came
C5_Witness ==
    /\ conf.repeat_probability = Scale
    /\ conf.interrupt_probability = 0
    /\ \E h \in Handlers :
          /\ hs[h].pc = "yield"
          /\ sent = [group_id |-> hs[h].event.group_id, chain |-> hs[h].event.chain]

\* C6: with repeat_probability 0.0 nothing is ever sent, no handler gets past the
\* probability gate, and no GroupState records a repeated fingerprint.
C6_NeverTriggers ==
    conf.repeat_probability = 0
        => /\ sent = NothingSent
           /\ \A h \in Handlers : ~InBody(h)
           /\ \A i \in 1..Len(heap) : heap[i].last_repeated_fingerprint = None
           /\ \A g \in Groups : repeated[g] = <<>>
           /\ ended.pc \notin {"done", "closed", "raised_send"}

\* C6 witness: with repeat_probability 0.0 a full window of identical records was
\* turned down at the probability gate
C6_Witness ==
    /\ conf.repeat_probability = 0
    /\ ended.pc = "ret_probability"
    /\ Len(EndedWindow) = MaxThreshold

\* C7 as stated: no configuration makes a call end in an error at the
\* construction of the GroupState or at the access to a record of an empty window.
C7_NoError == ended.pc \notin {"raised_ValueError", "raised_IndexError"}

\* C8 as stated: the lock is not held at the send nor at the yield.
C8_SendAfterRelease == \A h \in Handlers : InBody(h) => ~heap[hs[h].state].lock.locked

\* C9: at most one handler per GroupState is inside the body of `async with`; it
\* holds the lock, and the newest record of its window is still its own, so no
\* other message of the group was pushed since.
C9_OneHandlerInBody ==
    \A i \in 1..Len(heap) :
        LET inside == {h \in Handlers : InBody(h) /\ hs[h].state = i}
        IN  /\ Cardinality(inside) <= 1
            /\ inside # {} => heap[i].lock.locked
            /\ \A h \in inside : Newest(Window(h)) = RecordOf(hs[h].event)

\* C9 witness: a handler is at the send while another handler of the same group
\* waits for the lock
C9_Witness ==
    \E h \in Handlers, k \in Handlers :
        /\ InBody(h)
        /\ hs[k].pc = "waiting"
        /\ hs[k].state = hs[h].state
        /\ heap[hs[h].state].lock.waiters = <<k>>

\* C10: one GroupState at most is constructed for a group id, the registry entry
\* of the group is that object, and every handler of the group works on it.
C10_OneWindowPerGroup ==
    /\ Len(made) = Len(heap)
    /\ \A g \in Groups : Cardinality({i \in 1..Len(made) : made[i] = g}) <= 1
    /\ \A g \in Groups : group_states[g] # 0 => made[group_states[g]] = g
    /\ \A h \in Handlers :
          hs[h].pc # "idle"
              => /\ hs[h].state # 0
                 /\ hs[h].state = group_states[hs[h].event.group_id]

\* C10 witness: two handlers of one group are in flight on the same GroupState
C10_Witness ==
    \E h \in Handlers, k \in Handlers :
        /\ h # k
        /\ hs[h].pc # "idle"
        /\ hs[k].pc # "idle"
        /\ hs[h].event.group_id = hs[k].event.group_id
        /\ hs[h].state = hs[k].state

\* C11 as stated: the second random draw is consumed only after mark_repeated has
\* committed for the message.  A handler whose out_seg is chosen has consumed the
\* second draw; the commit for its message has set last_repeated_fingerprint to
\* its fingerprint.
C11_DrawAfterCommit ==
    \A h \in Handlers :
        hs[h].out_seg # NoSeg
            => heap[hs[h].state].last_repeated_fingerprint = hs[h].fingerprint

\* The GroupState of the ended call
EndedState == heap[ended.state]

\* C12 as stated: when a call whose send has delivered an output ends and releases
\* the lock, every window of its GroupState is empty and last_repeated_fingerprint
\* is the fingerprint of its message.
C12_EveryTriggerCommitted ==
    [][CallEnds /\ ended'.pc \in {"done", "closed"}
          => /\ ~EndedState'.lock.locked
             /\ \A t \in DOMAIN EndedState'.messages : EndedState'.messages[t] = <<>>
             /\ EndedState'.last_repeated_fingerprint = ended'.fingerprint]_vars

\* last_repeated_fingerprint of GroupState i before the step; None when the step
\* constructs the object
LastBefore(i) == IF i <= Len(heap) THEN heap[i].last_repeated_fingerprint ELSE None

\* C13: when a call ends at the threshold or consistency test, at the idempotency
\* check or at the probability gate, the newest record of the window of its type
\* is the record of its message and last_repeated_fingerprint is what it was
\* before; after a failed probability gate the window holds threshold records,
\* all with the fingerprint of the message.
C13_NoRollback ==
    [][CallEnds /\ ended'.pc \in {"ret_cannot_repeat", "ret_same_as_last", "ret_probability"}
          => /\ Len(EndedWindow') >= 1
             /\ Newest(EndedWindow') = RecordOf(ended'.event)
             /\ EndedState'.last_repeated_fingerprint = LastBefore(ended'.state)
             /\ ended'.pc = "ret_probability"
                   => /\ Len(EndedWindow') = Threshold(ended'.event.chain[1].type)
                      /\ \A k \in 1..Len(EndedWindow') :
                            _make_fingerprint(ended'.event.chain[1].type, EndedWindow'[k].seg)
                                = FingerprintOf(ended'.event)]_vars

\* C13 witness: a call was turned down at the probability gate by a draw (the
\* probability is neither 0.0 nor 1.0), and the window still holds the records
\* of two senders, the newest being its own
C13_Witness ==
    /\ ended.pc = "ret_probability"
    /\ conf.repeat_probability = 1
    /\ Len(EndedWindow) = 2
    /\ EndedWindow[1].send_id # EndedWindow[2].send_id
    /\ Newest(EndedWindow) = RecordOf(ended.event)

\* The call that ran in this step: the one that ended, or else the one handler
\* whose position changed
Acting == IF CallEnds THEN ended' ELSE hs'[CHOOSE h \in Handlers : hs'[h] # hs[h]]

\* C14: the window of a type t of a GroupState changes only in a step of a call
\* on that GroupState whose message is of type t, or in the step in which a call
\* on that GroupState commits; a GroupState constructed in the step has only the
\* window of the message's type filled.  So a call that does not commit leaves
\* the windows of the other types as they were, also when the sender guard
\* clears the window of its own type.
C14_OtherTypesUnchanged ==
    [][\A i \in 1..Len(heap') : \A t \in DOMAIN heap'[i].messages :
          LET before == IF i <= Len(heap) THEN heap[i].messages[t] ELSE <<>>
          IN  heap'[i].messages[t] # before
                  => /\ Acting.state = i
                     /\ Acting.event.chain[1].type = t \/ Acting.pc = "done"]_vars

\* C14 witness: the sender guard has cleared the window of the message's type,
\* which holds the new record alone, while the window of another type of the
\* group still holds a record
C14_Witness ==
    /\ ended.same_sender
    /\ ended.pc = "ret_cannot_repeat"
    /\ EndedWindow = <<RecordOf(ended.event)>>
    /\ \E t \in DOMAIN EndedState.messages :
          t # ended.event.chain[1].type /\ EndedState.messages[t] # <<>>

\* The event dispatched in this step
Incoming ==
    IF ended'.id = dispatched' THEN ended'.event
    ELSE hs'[CHOOSE h \in Handlers : hs'[h].id = dispatched'].event

\* An event the handler is to ignore: a wake command, a chain of a length other
\* than 1, a segment of a type without a configured threshold, or a group that a
\* non-empty whitelist leaves out
Rejectable(ev) ==
    \/ ev.is_at_or_wake_command
    \/ Len(ev.chain) # 1
    \/ ev.chain[1].type \notin DOMAIN conf.thresholds
    \/ conf.reread_group_whitelist # {} /\ ev.group_id \notin conf.reread_group_whitelist

\* C15: the dispatch of such an event constructs no GroupState and adds no
\* registry entry, changes no window, no lock and no last_repeated_fingerprint,
\* sends nothing and leaves no handler in flight.
C15_RejectedChangesNothing ==
    [][dispatched' # dispatched /\ Rejectable(Incoming)
          => UNCHANGED <<heap, group_states, made, sent, repeated, hs>>]_vars

\* C15 witness: an event of g2 was turned down by the whitelist after g1 got a
\* GroupState with a record; g2 has no registry entry
C15_Witness ==
    /\ ended.pc = "ret_whitelist"
    /\ ended.event.group_id = "g2"
    /\ Rejectable(ended.event)
    /\ group_states["g2"] = 0
    /\ group_states["g1"] # 0
    /\ \E t \in DOMAIN heap[group_states["g1"]].messages :
          heap[group_states["g1"]].messages[t] # <<>>

\* The handlers in flight on GroupState i: in the body, or waiting for the lock
Inside(i) == {h \in Handlers : InBody(h) /\ hs[h].state = i}
Waiting(i) == {h \in Handlers : hs[h].pc = "waiting" /\ hs[h].state = i}

\* C16: a step changes only the GroupState of the group of the call that runs
\* (windows, last_repeated_fingerprint and lock alike).  The lock of a GroupState
\* is held only by a handler of its own group, and only handlers of its own
\* group wait for it; a handler waits only while a handler of its group is in
\* the body or while it is itself the next to take the released lock.  So the
\* lock of a group with no handler in flight is free, whatever handlers of other
\* groups hold, and a handler of that group runs at once.
C16_GroupsIsolated ==
    [][/\ \A i \in 1..Len(heap') :
             (i > Len(heap) \/ heap'[i] # heap[i]) => made'[i] = Acting.event.group_id
       /\ \A i \in 1..Len(heap') :
             LET lock == heap'[i].lock
             IN  /\ lock.locked => \E h \in Inside(i)' : hs'[h].event.group_id = made'[i]
                 /\ {lock.waiters[k] : k \in 1..Len(lock.waiters)} = Waiting(i)'
                 /\ \A h \in Waiting(i)' : hs'[h].event.group_id = made'[i]
                 /\ Waiting(i)' # {} => lock.locked \/ hs'[Head(lock.waiters)].pc = "waiting"
                 /\ Inside(i)' = {} /\ Waiting(i)' = {} => LockFree(heap'[i])]_vars

\* C16 witness: while a handler of g1 holds the lock of g1's GroupState, a call
\* of g2 dispatched later has run on g2's GroupState and has ended
C16_Witness ==
    \E h \in Handlers :
        /\ InBody(h)
        /\ hs[h].event.group_id = "g1"
        /\ heap[hs[h].state].lock.locked
        /\ ended.event.group_id = "g2"
        /\ ended.id > hs[h].id
        /\ ended.pc = "ret_cannot_repeat"
        /\ ended.state # hs[h].state
        /\ EndedWindow = <<RecordOf(ended.event)>>

\* The step runs the body of a call up to its return or to the send, and so
\* pushes the record of its message
Pushes ==
    IF CallEnds
    THEN ended'.pc \in {"raised_IndexError", "ret_cannot_repeat", "ret_same_as_last",
                        "ret_probability"}
    ELSE Acting.pc = "send"

\* The last n entries of a sequence, all of them if it has fewer
MostRecent(lst, n) == IF Len(lst) <= n THEN lst ELSE SubSeq(lst, Len(lst) - n + 1, Len(lst))

\* C17: a push onto a window that holds threshold records leaves the previous
\* records without the oldest, in their order, followed by the new record; a push
\* onto a window below capacity appends the record and evicts nothing.  In both
\* cases, and with a capacity of 0, the window after the push is the most recent
\* threshold records of the window before it (emptied first if the sender guard
\* cleared it) followed by the new record.
C17_RingBufferPush ==
    [][Pushes =>
          LET t == Acting.event.chain[1].type
              i == Acting.state
              old == IF i <= Len(heap) THEN heap[i].messages[t] ELSE <<>>
              base == IF Acting.same_sender THEN <<>> ELSE old
              new == heap'[i].messages[t]
              rec == RecordOf(Acting.event)
          IN  /\ Len(base) = conf.thresholds[t] /\ base # <<>>
                    => /\ new = Append(Tail(base), rec)
                       /\ Len(new) = Len(base)
                       /\ \A k \in 1..(Len(base) - 1) : new[k] = base[k + 1]
              /\ Len(base) < conf.thresholds[t] => new = Append(base, rec)
              /\ new = MostRecent(Append(base, rec), conf.thresholds[t])]_vars

\* C17 witness: the window was full with the records of a repeat that was
\* delivered and never committed, so it was not cleared; the next message was
\* pushed, the oldest record went, and the second record of the repeat is now
\* the oldest
C17_Witness ==
    /\ ended.pc = "ret_cannot_repeat"
    /\ ended.id = MaxThreshold + 1
    /\ ~conf.require_different_people
    /\ conf.thresholds = PlainOnly(MaxThreshold)
    /\ sent.group_id = ended.event.group_id
    /\ repeated[ended.event.group_id] = <<>>
    /\ made = <<ended.event.group_id>>
    /\ Len(EndedWindow) = MaxThreshold
    /\ EndedWindow[1].seg = sent.chain[1]
    /\ Newest(EndedWindow) = RecordOf(ended.event)
    /\ ended.event.chain # sent.chain

\* C18 as stated: a GroupState that get_state returned to a StateManager instance
\* has the capacities of that instance's thresholds, and no other instance
\* obtains it.
C18_OwnThresholdsOwnWindow ==
    \A i \in 1..Len(sm_heap) :
        /\ \A m \in holders[i] : sm_heap[i].maxlen = managers[m]
        /\ Cardinality(holders[i]) <= 1

\* The call of handler h ends in this step without the commit: the send raised,
\* or the generator was closed
Aborts(h) == CallEnds /\ ended'.id = hs[h].id /\ ended'.pc \in {"raised_send", "closed"}

\* C19: from the moment a handler is at the send until its call ends at the send
\* or at the yield without the commit, no window and no last_repeated_fingerprint
\* of its GroupState changes.  When the call has ended so, the lock is released,
\* last_repeated_fingerprint is not the fingerprint of the message, and the
\* window still holds at least threshold records, the newest the message's own,
\* all with its fingerprint: the repeat test passes on it again.
C19_NoCommitWithoutDelivery ==
    [][\A h \in Handlers :
          InBody(h) /\ (InBody(h)' \/ Aborts(h))
              => /\ heap'[hs[h].state].messages = heap[hs[h].state].messages
                 /\ heap'[hs[h].state].last_repeated_fingerprint
                       = heap[hs[h].state].last_repeated_fingerprint
                 /\ Aborts(h)
                       => /\ ~EndedState'.lock.locked
                          /\ EndedState'.last_repeated_fingerprint # ended'.fingerprint
                          /\ Len(EndedWindow') >= Threshold(ended'.event.chain[1].type)
                          /\ Newest(EndedWindow') = RecordOf(ended'.event)
                          /\ _can_repeat(ended'.event.chain[1].type, EndedWindow')
                          /\ ~is_same_as_last_repeat(EndedState', ended'.fingerprint)]_vars

\* C19 witness: a call ended at the send or at the yield without the commit, and
\* the next message with the same fingerprint has passed all checks on the same
\* GroupState and is at the send
C19_Witness ==
    \E h \in Handlers :
        /\ hs[h].pc = "send"
        /\ ended.pc \in {"raised_send", "closed"}
        /\ hs[h].id > ended.id
        /\ hs[h].state = ended.state
        /\ hs[h].fingerprint = ended.fingerprint
        /\ heap[hs[h].state].last_repeated_fingerprint = None

\* C20: with a fair event loop and host, a lock that is held is released, and
\* every call in flight ends: one that waits for a lock takes it and runs the
\* body, one at the send or at the yield leaves the body.
C20_EveryHandlerFinishes ==
    /\ \A h \in Handlers : hs[h].pc # "idle" ~> hs[h].pc = "idle"
    /\ \A i \in 1..Cardinality(Groups) :
          (i <= Len(heap) /\ heap[i].lock.locked)
              ~> (i <= Len(heap) /\ ~heap[i].lock.locked)

\* C20 witness: a handler is suspended at the yield holding the lock, and
\* another handler is the first to wait for that lock
C20_Witness ==
    \E h \in Handlers, k \in Handlers :
        /\ hs[h].pc = "yield"
        /\ hs[k].pc = "waiting"
        /\ hs[k].state = hs[h].state
        /\ heap[hs[h].state].lock.locked
        /\ Head(heap[hs[h].state].lock.waiters) = k
        /\ hs[k].id > hs[h].id

====
